---- MODULE Spec2Model ----
(***************************************************************************)
(* Playlist / transport state machine of the music player.                 *)
(*                                                                         *)
(* The state is the reducer state of PlayerContext.jsx (initialState), the *)
(* operations are the reducer cases of playerReducer as dispatched by the  *)
(* provider's actions.  Array indices are the program's 0-based indices;   *)
(* TLA+ sequences are 1-based, so At(arr, i) reads arr[i + 1].             *)
(***************************************************************************)
EXTENDS Integers, Sequences, FiniteSets, TLC

\* ---------------------------------------------------------------- bounds
MaxLen == 3     \* longest playlist explored; also the number of track objects

\* Track objects.  Every track handed to the reducer is a freshly created
\* object (a literal built at upload time, or parsed from storage), so a
\* playlist never holds the same object twice.
Tracks == 1..MaxLen

\* ------------------------------------------------------- JavaScript values
\* A track is represented by its object identity (a positive integer).  null and
\* undefined are the two JavaScript non-values a track slot can hold.
Null == 0
Undefined == 0 - 1

RepeatModes == {"none", "one", "all"}

\* arr[i] of JavaScript: undefined outside the array
At(arr, i) == IF i >= 0 /\ i < Len(arr) THEN arr[i + 1] ELSE Undefined

\* arr.indexOf(x): first 0-based position of x, or -1
indexOf(arr, x) ==
  IF \E k \in 1..Len(arr) : arr[k] = x
    THEN (CHOOSE k \in 1..Len(arr) :
            arr[k] = x /\ \A m \in 1..(k - 1) : arr[m] # x) - 1
    ELSE 0 - 1

\* arr.map((_, index) => index)
IndexMap(arr) == [k \in 1..Len(arr) |-> k - 1]

\* arr.filter((_, index) => index !== p)
FilterIndex(arr, p) ==
  IF p >= 0 /\ p < Len(arr)
    THEN [k \in 1..(Len(arr) - 1) |-> IF k <= p THEN arr[k] ELSE arr[k + 1]]
    ELSE arr

\* arr.splice(p, 0, x) on a copy: insert x so that it lands at index p
\* (splice clamps p to the array length)
SpliceIn(arr, p, x) ==
  LET q == IF p > Len(arr) THEN Len(arr) ELSE p
  IN  SubSeq(arr, 1, q) \o <<x>> \o SubSeq(arr, q + 1, Len(arr))

\* [arr[i], arr[j]] = [arr[j], arr[i]]
Swap(arr, i, j) ==
  [k \in 1..Len(arr) |->
     IF k = i + 1 THEN arr[j + 1]
     ELSE IF k = j + 1 THEN arr[i + 1]
     ELSE arr[k]]

\* The values Math.floor(Math.random() * (i + 1)) can take for each step i
\* of the shuffle loop: a choice j_i in 0..i for every i in 1..n-1.
RandomDraws(n) ==
  {r \in [1..(n - 1) -> 0..(n - 1)] : \A i \in 1..(n - 1) : r[i] <= i}

\* Fisher-Yates loop of shuffleArray: for (i = length-1; i > 0; i--) swap(i, j_i)
RECURSIVE ShuffleLoop(_, _, _)
ShuffleLoop(arr, i, rnd) ==
  IF i <= 0 THEN arr
  ELSE ShuffleLoop(Swap(arr, i, rnd[i]), i - 1, rnd)

\* variant: the loop starts one element short of the end
shuffleArray_FromSecondLast(array, rnd) ==
  ShuffleLoop(array, Len(array) - 2, rnd)

shuffleArray(array, rnd) == ShuffleLoop(array, Len(array) - 1, rnd)

\* ------------------------------------------------------------------ state
\* volume is kept in tenths (10 stands for 1.0), times and durations in
\* whole seconds
initialState ==
  [ playlist      |-> <<>>,
    currentTrack  |-> Null,
    currentIndex  |-> 0 - 1,
    isPlaying     |-> FALSE,
    volume        |-> 10,
    currentTime   |-> 0,
    duration      |-> 0,
    isLoading     |-> FALSE,
    error         |-> "null",
    repeat        |-> "none",
    shuffle       |-> FALSE,
    shuffleOrder  |-> <<>>,
    originalOrder |-> <<>> ]

\* ------------------------------------------------- next / previous lookup
\* variant: the end of the order wraps whatever the repeat mode
getNextTrackIndex_AlwaysWrap(s) ==
  IF Len(s.playlist) = 0 THEN 0 - 1
  ELSE IF s.repeat = "one" THEN s.currentIndex
  ELSE
    LET order == IF s.shuffle THEN s.shuffleOrder ELSE s.originalOrder
        currentOrderIndex == indexOf(order, s.currentIndex)
    IN  IF currentOrderIndex = 0 - 1 THEN 0
        ELSE IF currentOrderIndex < Len(order) - 1
               THEN At(order, currentOrderIndex + 1)
        ELSE At(order, 0)

getNextTrackIndex(s) ==
  IF Len(s.playlist) = 0 THEN 0 - 1
  ELSE IF s.repeat = "one" THEN s.currentIndex
  ELSE
    LET order == IF s.shuffle THEN s.shuffleOrder ELSE s.originalOrder
        currentOrderIndex == indexOf(order, s.currentIndex)
    IN  IF currentOrderIndex = 0 - 1 THEN 0
        ELSE IF currentOrderIndex < Len(order) - 1
               THEN At(order, currentOrderIndex + 1)
        ELSE IF s.repeat = "all" THEN At(order, 0)
        ELSE 0 - 1

\* variant: the start of the order wraps only under repeat-all, as next does
getPreviousTrackIndex_WrapOnlyOnRepeatAll(s) ==
  IF Len(s.playlist) = 0 THEN 0 - 1
  ELSE
    LET order == IF s.shuffle THEN s.shuffleOrder ELSE s.originalOrder
        currentOrderIndex == indexOf(order, s.currentIndex)
    IN  IF currentOrderIndex = 0 - 1 THEN Len(s.playlist) - 1
        ELSE IF currentOrderIndex > 0
               THEN At(order, currentOrderIndex - 1)
        ELSE IF s.repeat = "all" THEN At(order, Len(order) - 1)
        ELSE 0 - 1

\* variant: the start of the order does not wrap
getPreviousTrackIndex_StayAtFirst(s) ==
  IF Len(s.playlist) = 0 THEN 0 - 1
  ELSE
    LET order == IF s.shuffle THEN s.shuffleOrder ELSE s.originalOrder
        currentOrderIndex == indexOf(order, s.currentIndex)
    IN  IF currentOrderIndex = 0 - 1 THEN Len(s.playlist) - 1
        ELSE IF currentOrderIndex > 0
               THEN At(order, currentOrderIndex - 1)
        ELSE At(order, 0)

getPreviousTrackIndex(s) ==
  IF Len(s.playlist) = 0 THEN 0 - 1
  ELSE
    LET order == IF s.shuffle THEN s.shuffleOrder ELSE s.originalOrder
        currentOrderIndex == indexOf(order, s.currentIndex)
    IN  IF currentOrderIndex = 0 - 1 THEN Len(s.playlist) - 1
        ELSE IF currentOrderIndex > 0
               THEN At(order, currentOrderIndex - 1)
        ELSE At(order, Len(order) - 1)

\* ---------------------------------------------------------- reducer cases
\* variant: the original order is left as it was
SET_PLAYLIST_KeepOrder(s, payload) ==
  [s EXCEPT !.playlist = payload]

SET_PLAYLIST(s, payload) ==
  [s EXCEPT !.playlist = payload,
            !.originalOrder = IndexMap(payload)]

ADD_TO_PLAYLIST(s, payload) ==
  LET newPlaylist == s.playlist \o payload
  IN  [s EXCEPT !.playlist = newPlaylist,
                !.originalOrder = IndexMap(newPlaylist)]

\* variant: the current index is not shifted when an earlier track goes
REMOVE_FROM_PLAYLIST_NoShift(s, payload) ==
  LET filteredPlaylist == FilterIndex(s.playlist, payload)
      newCurrentIndex ==
        IF payload = s.currentIndex THEN 0 - 1 ELSE s.currentIndex
  IN  [s EXCEPT !.playlist = filteredPlaylist,
                !.currentIndex = newCurrentIndex,
                !.currentTrack = IF newCurrentIndex >= 0
                                   THEN At(filteredPlaylist, newCurrentIndex)
                                   ELSE Null,
                !.originalOrder = IndexMap(filteredPlaylist)]

\* variant: <= in place of < in the first comparison
REMOVE_FROM_PLAYLIST_OffByOne(s, payload) ==
  LET filteredPlaylist == FilterIndex(s.playlist, payload)
      newCurrentIndex ==
        IF payload <= s.currentIndex THEN s.currentIndex - 1
        ELSE IF payload = s.currentIndex THEN 0 - 1
        ELSE s.currentIndex
  IN  [s EXCEPT !.playlist = filteredPlaylist,
                !.currentIndex = newCurrentIndex,
                !.currentTrack = IF newCurrentIndex >= 0
                                   THEN At(filteredPlaylist, newCurrentIndex)
                                   ELSE Null,
                !.originalOrder = IndexMap(filteredPlaylist)]

REMOVE_FROM_PLAYLIST(s, payload) ==
  LET filteredPlaylist == FilterIndex(s.playlist, payload)
      newCurrentIndex ==
        IF payload < s.currentIndex THEN s.currentIndex - 1
        ELSE IF payload = s.currentIndex THEN 0 - 1
        ELSE s.currentIndex
  IN  [s EXCEPT !.playlist = filteredPlaylist,
                !.currentIndex = newCurrentIndex,
                !.currentTrack = IF newCurrentIndex >= 0
                                   THEN At(filteredPlaylist, newCurrentIndex)
                                   ELSE Null,
                !.originalOrder = IndexMap(filteredPlaylist)]

SET_CURRENT_TRACK(s, track, index) ==
  [s EXCEPT !.currentTrack = track,
            !.currentIndex = index,
            !.currentTime = 0]

SET_PLAYING(s, payload) == [s EXCEPT !.isPlaying = payload]

SET_VOLUME(s, payload) == [s EXCEPT !.volume = payload]

SET_CURRENT_TIME(s, payload) == [s EXCEPT !.currentTime = payload]

SET_DURATION(s, payload) == [s EXCEPT !.duration = payload]

SET_ERROR(s, payload) == [s EXCEPT !.error = payload, !.isLoading = FALSE]

SET_REPEAT(s, payload) == [s EXCEPT !.repeat = payload]

SET_SHUFFLE(s, payload, rnd) ==
  LET shuffleOrder == IF payload THEN shuffleArray(s.originalOrder, rnd)
                      ELSE <<>>
  IN  [s EXCEPT !.shuffle = payload,
                !.shuffleOrder = shuffleOrder]

NEXT_TRACK(s) ==
  LET nextIndex == getNextTrackIndex(s)
  IN  [s EXCEPT !.currentIndex = nextIndex,
                !.currentTrack = IF nextIndex >= 0
                                   THEN At(s.playlist, nextIndex)
                                   ELSE Null,
                !.currentTime = 0]

PREVIOUS_TRACK(s) ==
  LET prevIndex == getPreviousTrackIndex(s)
  IN  [s EXCEPT !.currentIndex = prevIndex,
                !.currentTrack = IF prevIndex >= 0
                                   THEN At(s.playlist, prevIndex)
                                   ELSE Null,
                !.currentTime = 0]

\* variant: the shuffle order is left as it was
CLEAR_PLAYLIST_KeepShuffleOrder(s) ==
  [s EXCEPT !.playlist = <<>>,
            !.currentTrack = Null,
            !.currentIndex = 0 - 1,
            !.isPlaying = FALSE,
            !.originalOrder = <<>>]

CLEAR_PLAYLIST(s) ==
  [s EXCEPT !.playlist = <<>>,
            !.currentTrack = Null,
            !.currentIndex = 0 - 1,
            !.isPlaying = FALSE,
            !.originalOrder = <<>>,
            !.shuffleOrder = <<>>]

\* variant: > in place of >= in the second branch of the remapping
REORDER_PLAYLIST_StrictEnd(s, startIndex, endIndex) ==
  LET removed == At(s.playlist, startIndex)
      newList == SpliceIn(FilterIndex(s.playlist, startIndex), endIndex, removed)
      newCurrentIndex ==
        IF startIndex = s.currentIndex THEN endIndex
        ELSE IF startIndex < s.currentIndex /\ endIndex > s.currentIndex
               THEN s.currentIndex - 1
        ELSE IF startIndex > s.currentIndex /\ endIndex <= s.currentIndex
               THEN s.currentIndex + 1
        ELSE s.currentIndex
  IN  [s EXCEPT !.playlist = newList,
                !.currentIndex = newCurrentIndex,
                !.originalOrder = IndexMap(newList)]

REORDER_PLAYLIST(s, startIndex, endIndex) ==
  LET removed == At(s.playlist, startIndex)
      newList == SpliceIn(FilterIndex(s.playlist, startIndex), endIndex, removed)
      newCurrentIndex ==
        IF startIndex = s.currentIndex THEN endIndex
        ELSE IF startIndex < s.currentIndex /\ endIndex >= s.currentIndex
               THEN s.currentIndex - 1
        ELSE IF startIndex > s.currentIndex /\ endIndex <= s.currentIndex
               THEN s.currentIndex + 1
        ELSE s.currentIndex
  IN  [s EXCEPT !.playlist = newList,
                !.currentIndex = newCurrentIndex,
                !.originalOrder = IndexMap(newList)]

\* ------------------------------------------------------------ the machine
VARIABLES
  state,    \* the reducer state of the provider
  last,     \* the command that produced it
  store,    \* the provider's persistence: local storage and effect bookkeeping
  hook,     \* the audio hook (useAudioPlayer) with its audio element
  viz,      \* the visualizer component and its animation-frame requests
  intake    \* the files that file intake turned into tracks

vars == <<state, last, store, hook, viz, intake>>

\* what the reducer commands leave alone
envVars == <<store, hook, viz, intake>>

\* Sequences of distinct track objects, of length at most n
RECURSIVE SeqsUpTo(_)
SeqsUpTo(n) ==
  IF n = 0 THEN {<<>>}
  ELSE SeqsUpTo(n - 1) \cup
       {t \in [1..n -> Tracks] : \A i, j \in 1..n : i # j => t[i] # t[j]}

\* the track lists a caller may pass in one call
TrackLists == SeqsUpTo(MaxLen)

Range(arr) == {arr[k] : k \in 1..Len(arr)}

ValidIndex(s, i) == i >= 0 /\ i < Len(s.playlist)

\* last is the command that produced the state: its type and, for the
\* commands that take a single index, that index (-1 otherwise)
Cmd(type, index) == [type |-> type, index |-> index]

\* the settings snapshot the provider persists
Settings(s) ==
  [currentIndex |-> s.currentIndex, volume |-> s.volume,
   repeat |-> s.repeat, shuffle |-> s.shuffle]

\* the provider before its first effects ran, over empty storage: hasTracks /
\* hasSettings tell whether the key exists, malformed whether the playlist
\* document is text JSON.parse rejects, failing whether localStorage throws
\* when it is accessed; playlistDeps / settingsDeps are
\* the dependencies the save effects last ran with
storeInitial ==
  [mounted      |-> FALSE,
   hasTracks    |-> FALSE,
   malformed    |-> FALSE,
   failing      |-> FALSE,
   tracks       |-> <<>>,
   hasSettings  |-> FALSE,
   settings     |-> Settings(initialState),
   playlistDeps |-> <<>>,
   settingsDeps |-> Settings(initialState)]

\* the bound on play() promises awaiting their outcome
MaxPending == 2

\* The audio hook at its first render over an empty stored playlist: its
\* React state, the playlist of the first render (the one the listeners
\* registered at mount keep seeing), the audio element (src, audioPlaying)
\* and the play() promises not settled yet, oldest first; a promise is
\* aborted once a later load replaced the resource it was for; audioSeek is
\* the value last assigned to audio.currentTime; stored is the
\* playlist document useLocalStorage keeps (no document reads as the empty
\* list); urls are the tracks whose object URL exists and is not revoked
hookInitial ==
  [playlist          |-> <<>>,
   mountPlaylist     |-> <<>>,
   currentTrack      |-> Null,
   currentTrackIndex |-> 0,
   isPlaying         |-> FALSE,
   isLoading         |-> FALSE,
   error             |-> "null",
   repeatMode        |-> "none",
   isShuffled        |-> FALSE,
   volume            |-> 10,
   currentTime       |-> 0,
   duration          |-> 0,
   audioSeek         |-> 0,
   src               |-> Null,
   audioPlaying      |-> FALSE,
   pending           |-> <<>>,
   stored            |-> <<>>,
   urls              |-> {}]

\* the bound on the animation-frame requests made in one run
MaxFrames == 4

\* The visualizer before its first commit: the props and state of the latest
\* commit, whether the passive effects of that commit have run (flushed) and
\* whether the playback effect ran before, animationRef, the frame requests
\* the browser holds (each with the closure of the draw it will call) and the
\* id the next request gets
vizInitial ==
  [phase          |-> "new",
   isPlaying      |-> FALSE,
   isInitialized  |-> FALSE,
   visualizerType |-> "bars",
   flushed        |-> TRUE,
   effectRan      |-> FALSE,
   animationRef   |-> Null,
   pending        |-> {},
   nextId         |-> 1]

intakeInitial == <<>>

Init ==
  /\ state = initialState
  /\ last = Cmd("INIT", 0 - 1)
  /\ store = storeInitial
  /\ hook = hookInitial
  /\ viz = vizInitial
  /\ intake = intakeInitial

\* setPlaylist(playlist): the array handed over is a list of k track objects
\* (the provider passes the collection parsed from storage)
SetPlaylist ==
  \E k \in 0..MaxLen :
    /\ state' = SET_PLAYLIST(state, [i \in 1..k |-> i])
    /\ last' = Cmd("SET_PLAYLIST", 0 - 1)
    /\ UNCHANGED envVars

\* addToPlaylist(tracks): new track objects, none of them in the playlist yet
AddToPlaylist ==
  \E tracks \in TrackLists :
    /\ Len(tracks) > 0
    /\ Len(state.playlist) + Len(tracks) <= MaxLen
    /\ Range(tracks) \cap Range(state.playlist) = {}
    /\ state' = ADD_TO_PLAYLIST(state, tracks)
    /\ last' = Cmd("ADD_TO_PLAYLIST", 0 - 1)
    /\ UNCHANGED envVars

\* removeFromPlaylist(index) with 0 <= index < playlist.length
RemoveFromPlaylist ==
  \E index \in 0..(MaxLen - 1) :
    /\ ValidIndex(state, index)
    /\ state' = REMOVE_FROM_PLAYLIST(state, index)
    /\ last' = Cmd("REMOVE_FROM_PLAYLIST", index)
    /\ UNCHANGED envVars

\* skipTo(index): the provider resolves the (track, index) pair itself
SkipTo ==
  \E index \in 0..(MaxLen - 1) :
    /\ index >= 0 /\ index < Len(state.playlist)
    /\ state' = SET_CURRENT_TRACK(state, At(state.playlist, index), index)
    /\ last' = Cmd("SET_CURRENT_TRACK", index)
    /\ UNCHANGED envVars

SetRepeat ==
  \E mode \in RepeatModes :
    /\ state' = SET_REPEAT(state, mode)
    /\ last' = Cmd("SET_REPEAT", 0 - 1)
    /\ UNCHANGED envVars

\* variant: the modes are listed none, one, all
toggleRepeat_OneBeforeAll(s) ==
  LET modes        == <<"none", "one", "all">>
      currentIndex == indexOf(modes, s.repeat)
      nextMode     == At(modes, (currentIndex + 1) % Len(modes))
  IN  SET_REPEAT(s, nextMode)

\* toggleRepeat() of the provider, over the state of its render
toggleRepeat(s) ==
  LET modes        == <<"none", "all", "one">>
      currentIndex == indexOf(modes, s.repeat)
      nextMode     == At(modes, (currentIndex + 1) % Len(modes))
  IN  SET_REPEAT(s, nextMode)

\* toggleRepeat() from the latest render; last records the position of the
\* mode before in none, all, one (-1 when it is none of them)
ToggleRepeat ==
  /\ state' = toggleRepeat(state)
  /\ last' = Cmd("TOGGLE_REPEAT",
                 indexOf(<<"none", "all", "one">>, state.repeat))
  /\ UNCHANGED envVars

\* setShuffle(on); the draws of Math.random() are any the loop can make
SetShuffle ==
  \E on \in BOOLEAN :
    \E rnd \in (IF on THEN RandomDraws(Len(state.originalOrder)) ELSE {<<>>}) :
      /\ state' = SET_SHUFFLE(state, on, rnd)
      /\ last' = Cmd("SET_SHUFFLE", 0 - 1)
      /\ UNCHANGED envVars

NextTrack ==
  /\ state' = NEXT_TRACK(state)
  /\ last' = Cmd("NEXT_TRACK", 0 - 1)
  /\ UNCHANGED envVars

PreviousTrack ==
  /\ state' = PREVIOUS_TRACK(state)
  /\ last' = Cmd("PREVIOUS_TRACK", 0 - 1)
  /\ UNCHANGED envVars

ClearPlaylist ==
  /\ state' = CLEAR_PLAYLIST(state)
  /\ last' = Cmd("CLEAR_PLAYLIST", 0 - 1)
  /\ UNCHANGED envVars

\* reorderPlaylist(startIndex, endIndex) with both indices valid
ReorderPlaylist ==
  \E startIndex \in 0..(MaxLen - 1), endIndex \in 0..(MaxLen - 1) :
    /\ ValidIndex(state, startIndex)
    /\ ValidIndex(state, endIndex)
    /\ state' = REORDER_PLAYLIST(state, startIndex, endIndex)
    /\ last' = Cmd("REORDER_PLAYLIST", 0 - 1)
    /\ UNCHANGED envVars

Next ==
  \/ SetPlaylist
  \/ AddToPlaylist
  \/ RemoveFromPlaylist
  \/ SkipTo
  \/ SetRepeat
  \/ SetShuffle
  \/ NextTrack
  \/ PreviousTrack
  \/ ClearPlaylist
  \/ ReorderPlaylist

Spec == Init /\ [][Next]_vars

\* The commands of the claim about add / remove / select sequences only
NextIndex ==
  \/ AddToPlaylist
  \/ RemoveFromPlaylist
  \/ SkipTo

SpecIndex == Init /\ [][NextIndex]_vars

\* The commands that decide what SET_SHUFFLE works on
NextShuffle ==
  \/ AddToPlaylist
  \/ RemoveFromPlaylist
  \/ ClearPlaylist
  \/ SetShuffle

SpecShuffle == Init /\ [][NextShuffle]_vars

\* ------------------------------------------------- provider persistence
\* The key-value store holds two documents, the track collection and the
\* settings snapshot. The item under the playlist key: no item, text that
\* does not parse, or the JSON of a track list
PlaylistDoc(st) ==
  [kind  |-> IF ~st.hasTracks THEN "missing"
             ELSE IF st.malformed THEN "malformed" ELSE "json",
   value |-> st.tracks]

\* getFromStorage(key, defaultValue) over the item doc; throws tells whether
\* localStorage.getItem throws. The result is the returned value and whether
\* an exception left the function.
getFromStorage(doc, throws, defaultValue) ==
  LET try == [threw |-> throws \/ doc.kind = "malformed",
              value |-> IF doc.kind = "json" THEN doc.value ELSE defaultValue]
  IN  IF try.threw THEN [threw |-> FALSE, value |-> defaultValue] ELSE try

\* what localStorage.setItem(key, JSON.stringify(value)) leaves
SetItem(st, key, value) ==
  IF key = "playlist"
    THEN [st EXCEPT !.hasTracks = TRUE, !.malformed = FALSE, !.tracks = value]
    ELSE [st EXCEPT !.hasSettings = TRUE, !.settings = value]

\* variant: no catch around the write
setToStorage_NoCatch(st, key, value) ==
  LET try == IF st.failing THEN [threw |-> TRUE, st |-> st]
             ELSE [threw |-> FALSE, st |-> SetItem(st, key, value)]
  IN  [ok |-> ~try.threw, threw |-> try.threw, st |-> try.st]

\* setToStorage(key, value): the returned boolean, whether an exception left
\* the function, and the storage afterwards
setToStorage(st, key, value) ==
  LET try == IF st.failing THEN [threw |-> TRUE, st |-> st]
             ELSE [threw |-> FALSE, st |-> SetItem(st, key, value)]
  IN  [ok |-> ~try.threw, threw |-> FALSE, st |-> try.st]

\* removeFromStorage(key) for the playlist key
removeFromStorage(st) ==
  LET try == IF st.failing THEN [threw |-> TRUE, st |-> st]
             ELSE [threw |-> FALSE,
                   st |-> [st EXCEPT !.hasTracks = FALSE, !.malformed = FALSE,
                                     !.tracks = <<>>]]
  IN  [ok |-> ~try.threw, threw |-> FALSE, st |-> try.st]

\* loadPlaylist() is the stored collection or the default
loadPlaylist(st) == getFromStorage(PlaylistDoc(st), st.failing, <<>>).value

\* loadPlayerState() is the stored snapshot, or null when there is none or
\* it cannot be read
loadPlayerState(st) == st.settings

savePlaylist(st, playlist) == setToStorage(st, "playlist", playlist).st

savePlayerState(st, playerState) ==
  setToStorage(st, "settings", playerState).st

\* the restore that applies a stored index whenever it is not negative
LoadEffect_NoUpperBound(s, st, rnd) ==
  LET savedPlaylist    == loadPlaylist(st)
      savedPlayerState == loadPlayerState(st)
      s1 == SET_PLAYLIST(s, savedPlaylist)
      s2 == IF savedPlayerState.currentIndex >= 0
              THEN SET_CURRENT_TRACK(s1,
                     At(savedPlaylist, savedPlayerState.currentIndex),
                     savedPlayerState.currentIndex)
              ELSE s1
      s3 == SET_VOLUME(s2, savedPlayerState.volume)
      s4 == IF savedPlayerState.repeat # ""
              THEN SET_REPEAT(s3, savedPlayerState.repeat)
              ELSE s3
      s5 == SET_SHUFFLE(s4, savedPlayerState.shuffle, rnd)
  IN  IF Len(savedPlaylist) > 0
        THEN (IF st.hasSettings /\ ~st.failing THEN s5 ELSE s1)
        ELSE s

\* The load effect of the provider: the dispatches it makes, in order, applied
\* to the reducer state s; rnd are the draws of a restored shuffle
LoadEffect(s, st, rnd) ==
  LET savedPlaylist    == loadPlaylist(st)
      savedPlayerState == loadPlayerState(st)
      s1 == SET_PLAYLIST(s, savedPlaylist)
      s2 == IF /\ savedPlayerState.currentIndex >= 0
               /\ savedPlayerState.currentIndex < Len(savedPlaylist)
              THEN SET_CURRENT_TRACK(s1,
                     At(savedPlaylist, savedPlayerState.currentIndex),
                     savedPlayerState.currentIndex)
              ELSE s1
      s3 == SET_VOLUME(s2, savedPlayerState.volume)
      s4 == IF savedPlayerState.repeat # ""
              THEN SET_REPEAT(s3, savedPlayerState.repeat)
              ELSE s3
      s5 == SET_SHUFFLE(s4, savedPlayerState.shuffle, rnd)
  IN  IF Len(savedPlaylist) > 0
        THEN (IF st.hasSettings /\ ~st.failing THEN s5 ELSE s1)
        ELSE s

\* the draws the load effect makes: those of SET_SHUFFLE(true), if it runs
LoadDraws(st) ==
  IF /\ Len(loadPlaylist(st)) > 0
     /\ st.hasSettings /\ ~st.failing
     /\ st.settings.shuffle
    THEN RandomDraws(Len(loadPlaylist(st)))
    ELSE {<<>>}

\* The first commit of the provider: its three effects run in order over the
\* first render's state. The load effect reads storage and dispatches, the
\* save-playlist effect writes a non-empty playlist, the save-settings effect
\* writes the snapshot; the dispatches are applied afterwards. last records
\* the currentIndex of the snapshot that was read (-1 when there was none).
Mount ==
  /\ ~store.mounted
  /\ \E rnd \in LoadDraws(store) : state' = LoadEffect(state, store, rnd)
  /\ store' =
       [savePlayerState(
          IF Len(state.playlist) > 0
            THEN savePlaylist(store, state.playlist) ELSE store,
          Settings(state))
        EXCEPT !.mounted = TRUE,
               !.playlistDeps = state.playlist,
               !.settingsDeps = Settings(state)]
  /\ last' = Cmd("MOUNT", IF store.hasSettings /\ ~store.failing
                            THEN store.settings.currentIndex ELSE 0 - 1)
  /\ UNCHANGED <<hook, viz, intake>>

\* The save-playlist effect: runs when state.playlist differs from the one it
\* last ran with (a re-run over an equal playlist writes the same document)
SavePlaylistEffect ==
  /\ store.mounted
  /\ store.playlistDeps # state.playlist
  /\ store' =
       [(IF Len(state.playlist) > 0
           THEN savePlaylist(store, state.playlist) ELSE store)
        EXCEPT !.playlistDeps = state.playlist]
  /\ last' = Cmd("SAVE_PLAYLIST", 0 - 1)
  /\ UNCHANGED <<state, hook, viz, intake>>

\* The save-settings effect
SaveSettingsEffect ==
  /\ store.mounted
  /\ store.settingsDeps # Settings(state)
  /\ store' = [savePlayerState(store, Settings(state))
               EXCEPT !.settingsDeps = Settings(state)]
  /\ last' = Cmd("SAVE_SETTINGS", 0 - 1)
  /\ UNCHANGED <<state, hook, viz, intake>>

\* the volumes a caller passes to setVolume, in tenths
VolumeInputs == {0 - 2, 0, 5, 10, 15}

Min(a, b) == IF a < b THEN a ELSE b

Max(a, b) == IF a > b THEN a ELSE b

\* setVolume(volume): the provider clamps before it dispatches
SetVolume ==
  \E volume \in VolumeInputs :
    /\ state' = SET_VOLUME(state, Max(0, Min(10, volume)))
    /\ last' = Cmd("SET_VOLUME", 0 - 1)
    /\ UNCHANGED envVars

\* the track collections storage may hold when the page loads
StoredTrackLists == {[i \in 1..k |-> i] : k \in 0..MaxLen}

\* the settings snapshots storage may hold when the page loads
\* the repeat values a stored snapshot may carry: the three modes, the empty
\* string (falsy) and a string that is no mode
StoredRepeats == RepeatModes \cup {"", "off"}

StoredSettings ==
  [currentIndex : (0 - 1)..MaxLen, volume : {0 - 2, 5, 10, 15},
   repeat : StoredRepeats, shuffle : BOOLEAN]

\* storage as a page load finds it: each document absent or present
Storages ==
  {[storeInitial EXCEPT !.hasTracks = TRUE, !.tracks = t] :
     t \in StoredTrackLists} \cup {storeInitial}

StoragesWithSettings ==
  Storages \cup
  {[st EXCEPT !.hasSettings = TRUE, !.settings = g] :
     st \in Storages, g \in StoredSettings}

\* A page load over any storage, then volume changes and the save effects
InitRestore ==
  /\ state = initialState
  /\ last = Cmd("INIT", 0 - 1)
  /\ store \in StoragesWithSettings
  /\ hook = hookInitial
  /\ viz = vizInitial
  /\ intake = intakeInitial

NextRestore ==
  \/ Mount
  \/ store.mounted /\ SetVolume
  \/ store.mounted /\ ToggleRepeat
  \/ SavePlaylistEffect
  \/ SaveSettingsEffect

SpecInit == InitRestore /\ [][NextRestore]_vars

\* A page load over a stored track collection, then the commands that alter
\* the playlist and the selection, with the save effects running after them
InitStore ==
  /\ state = initialState
  /\ last = Cmd("INIT", 0 - 1)
  /\ store \in Storages
  /\ hook = hookInitial
  /\ viz = vizInitial
  /\ intake = intakeInitial

NextStore ==
  \/ Mount
  \/ store.mounted /\ SetPlaylist
  \/ store.mounted /\ AddToPlaylist
  \/ store.mounted /\ RemoveFromPlaylist
  \/ store.mounted /\ ClearPlaylist
  \/ store.mounted /\ ReorderPlaylist
  \/ store.mounted /\ SkipTo
  \/ SavePlaylistEffect
  \/ SaveSettingsEffect

SpecStore == InitStore /\ [][NextStore]_vars

\* ------------------------------------------------------- the audio hook
\* What the callbacks created in one render see of the hook's state
Render(h) ==
  [currentTrack |-> h.currentTrack, currentTrackIndex |-> h.currentTrackIndex,
   playlist |-> h.playlist, repeatMode |-> h.repeatMode,
   isShuffled |-> h.isShuffled]

\* The first render: the mount effect (dependencies []) registers handleEnded
\* once, and handleEnded calls the handleTrackEnd of that render
FirstRender(h) ==
  [currentTrack |-> Null, currentTrackIndex |-> 0,
   playlist |-> h.mountPlaylist, repeatMode |-> "none",
   isShuffled |-> FALSE]

AbortAll(pending) ==
  [k \in 1..Len(pending) |-> [pending[k] EXCEPT !.aborted = TRUE]]

\* loadTrack(track): a new src makes the element drop the old resource and
\* reject the play() promises that waited for it
loadTrack(h, track) ==
  IF track = Null \/ track = Undefined THEN h
  ELSE [h EXCEPT !.isLoading = TRUE,
                 !.error = "null",
                 !.src = track,
                 !.audioPlaying = FALSE,
                 !.currentTrack = track,
                 !.pending = AbortAll(h.pending)]

\* play() of the render c: nothing without a current track in that render,
\* else audio.play(), whose promise settles later
play(h, c) ==
  IF c.currentTrack = Null THEN h
  ELSE [h EXCEPT !.pending =
          Append(h.pending, [track |-> h.src, aborted |-> FALSE])]

\* playTrack(track, index) of the render c; index is Null when not passed
playTrack(h, c, track, index) ==
  LET h1 == IF index # Null THEN [h EXCEPT !.currentTrackIndex = index] ELSE h
  IN  play(loadTrack(h1, track), c)

\* playTrackByIndex(index) of the render c
playTrackByIndex(h, c, index) ==
  IF At(c.playlist, index) # Undefined
    THEN playTrack([h EXCEPT !.currentTrackIndex = index], c,
                   At(c.playlist, index), Null)
    ELSE h

\* nextTrack() of the render c; rnd is the index Math.random() draws
nextTrack(h, c, rnd) ==
  IF Len(c.playlist) = 0 THEN h
  ELSE playTrackByIndex(h, c,
         IF c.isShuffled THEN rnd
         ELSE (c.currentTrackIndex + 1) % Len(c.playlist))

\* previousTrack() of the render c; rnd is the index Math.random() draws
previousTrack(h, c, rnd) ==
  IF Len(c.playlist) = 0 THEN h
  ELSE playTrackByIndex(h, c,
         IF c.isShuffled THEN rnd
         ELSE IF c.currentTrackIndex = 0 THEN Len(c.playlist) - 1
         ELSE c.currentTrackIndex - 1)

\* handleTrackEnd() of the render c
handleTrackEnd(h, c, rnd) ==
  LET h1 == [h EXCEPT !.isPlaying = FALSE]
  IN  CASE c.repeatMode = "one" -> play(h1, c)
        [] c.repeatMode = "all" -> nextTrack(h1, c, rnd)
        [] OTHER -> IF c.currentTrackIndex < Len(c.playlist) - 1
                      THEN nextTrack(h1, c, rnd)
                      ELSE h1

\* the 'ended' event of the audio element, as the registered listener
\* handles it
handleEnded(h) ==
  handleTrackEnd([h EXCEPT !.audioPlaying = FALSE], FirstRender(h), 0)

\* a track object that is not in the playlist of h
FreshTrack(h) ==
  1 + (CHOOSE m \in Range(h.playlist) \cup {0} :
         \A t \in Range(h.playlist) : t <= m)

\* setValue of useLocalStorage once the value to store is known: the state
\* is set, then the item is written; a throwing localStorage is caught
setValue(h, valueToStore) ==
  [h EXCEPT !.playlist = valueToStore,
            !.stored = IF store.failing THEN h.stored ELSE valueToStore]

\* addToPlaylist(tracks) of the render c: setValue applies the updater
\* prev => [...prev, ...tracks] to the storedValue of that render
addToPlaylist(h, c, tracks) ==
  LET valueToStore == c.playlist \o tracks
  IN  setValue(h, valueToStore)

\* addToPlaylist(track): one new track object is appended
HookAddToPlaylist ==
  /\ Len(hook.playlist) < MaxLen
  /\ hook' = addToPlaylist(hook, Render(hook), <<FreshTrack(hook)>>)
  /\ last' = Cmd("HOOK_ADD", 0 - 1)
  /\ UNCHANGED <<state, store, viz, intake>>

\* playTrack(track) or playTrack(track, index) on a track of the playlist,
\* called from the latest render; its awaits only wait for microtasks, so
\* the call runs through before anything else happens
PlayTrack ==
  \E index \in 0..(MaxLen - 1), withIndex \in BOOLEAN :
    /\ index < Len(hook.playlist)
    /\ Len(hook.pending) < MaxPending
    /\ hook' = playTrack(hook, Render(hook), At(hook.playlist, index),
                         IF withIndex THEN index ELSE Null)
    /\ last' = Cmd("PLAY_TRACK", index)
    /\ UNCHANGED <<state, store, viz, intake>>

\* nextTrack() called from the latest render (shuffle is off)
HookNextTrack ==
  /\ Len(hook.pending) < MaxPending
  /\ hook' = nextTrack(hook, Render(hook), 0)
  /\ last' = Cmd("HOOK_NEXT", hook.currentTrackIndex)
  /\ UNCHANGED <<state, store, viz, intake>>

\* previousTrack() called from the latest render (shuffle is off)
HookPreviousTrack ==
  /\ Len(hook.pending) < MaxPending
  /\ hook' = previousTrack(hook, Render(hook), 0)
  /\ last' = Cmd("HOOK_PREVIOUS", hook.currentTrackIndex)
  /\ UNCHANGED <<state, store, viz, intake>>

\* a play() promise is fulfilled: playback of the current resource began
PlayResolved ==
  \E k \in 1..MaxPending :
    /\ k <= Len(hook.pending)
    /\ ~hook.pending[k].aborted
    /\ hook' = [hook EXCEPT !.pending = FilterIndex(hook.pending, k - 1),
                            !.audioPlaying = TRUE,
                            !.isPlaying = TRUE,
                            !.error = "null"]
    /\ last' = Cmd("PLAY_RESOLVED", 0 - 1)
    /\ UNCHANGED <<state, store, viz, intake>>

\* a play() promise is rejected: the resource was replaced by a later load,
\* or the element could not play it
PlayRejected ==
  \E k \in 1..MaxPending :
    /\ k <= Len(hook.pending)
    /\ hook' = [hook EXCEPT !.pending = FilterIndex(hook.pending, k - 1),
                            !.error = "Failed to play audio",
                            !.isPlaying = FALSE]
    /\ last' = Cmd("PLAY_REJECTED", 0 - 1)
    /\ UNCHANGED <<state, store, viz, intake>>

\* the playing track reaches its end; last records the index before
Ended ==
  /\ hook.audioPlaying
  /\ hook' = handleEnded(hook)
  /\ last' = Cmd("ENDED", hook.currentTrackIndex)
  /\ UNCHANGED <<state, store, viz, intake>>

\* the updater toggleRepeat passes to setRepeatMode
toggleRepeatUpdater(prev) ==
  CASE prev = "none" -> "all"
    [] prev = "all" -> "one"
    [] prev = "one" -> "none"
    [] OTHER -> "none"

\* toggleRepeat(): none -> all -> one -> none
HookToggleRepeat ==
  /\ hook' = [hook EXCEPT !.repeatMode = toggleRepeatUpdater(hook.repeatMode)]
  /\ last' = Cmd("HOOK_TOGGLE_REPEAT", 0 - 1)
  /\ UNCHANGED <<state, store, viz, intake>>

\* The hook's first render reads its playlist from storage
InitHook ==
  /\ state = initialState
  /\ last = Cmd("INIT", 0 - 1)
  /\ store = storeInitial
  /\ \E pl \in StoredTrackLists :
       hook = [hookInitial EXCEPT !.playlist = pl, !.mountPlaylist = pl,
                                  !.stored = pl]
  /\ viz = vizInitial
  /\ intake = intakeInitial

NextHook ==
  \/ HookAddToPlaylist
  \/ PlayTrack
  \/ HookNextTrack
  \/ HookPreviousTrack
  \/ PlayResolved
  \/ PlayRejected
  \/ Ended
  \/ HookToggleRepeat

SpecHook == InitHook /\ [][NextHook]_vars

\* ------------------------------------------------------- the visualizer
VisualizerTypes == {"bars", "circular", "waveform"}

cancelAnimationFrame(v, id) ==
  [v EXCEPT !.pending = {r \in v.pending : r.id # id}]

\* draw of the render with props / state c: analyserRef and dataArrayRef are
\* set when the audio context was initialised, canvasRef while mounted
draw(v, c) ==
  IF ~v.isInitialized \/ v.phase # "mounted" THEN v
  ELSE IF c.isPlaying
    THEN [v EXCEPT !.pending = v.pending \cup
                     {[id |-> v.nextId, isPlaying |-> c.isPlaying,
                       visualizerType |-> c.visualizerType]},
                   !.animationRef = v.nextId,
                   !.nextId = v.nextId + 1]
    ELSE v

\* variant: the cleanup leaves the request alone
PlaybackCleanup_NoCancel(v) == v

\* the cleanup the playback effect returns
PlaybackCleanup(v) ==
  IF v.animationRef # Null THEN cancelAnimationFrame(v, v.animationRef) ELSE v

\* the body of the playback effect, over the latest commit
PlaybackEffect(v) ==
  IF v.isPlaying /\ v.isInitialized
    THEN draw(v, [isPlaying |-> v.isPlaying,
                  visualizerType |-> v.visualizerType])
    ELSE IF v.animationRef # Null
      THEN cancelAnimationFrame(v, v.animationRef)
      ELSE v

\* the cleanup of the unmount effect (closing the audio context aside)
UnmountCleanup(v) ==
  IF v.animationRef # Null THEN cancelAnimationFrame(v, v.animationRef) ELSE v

\* first commit, with the isPlaying prop the parent passes
VizMount ==
  \E p \in BOOLEAN :
    /\ viz.phase = "new"
    /\ viz' = [viz EXCEPT !.phase = "mounted", !.isPlaying = p,
                          !.flushed = FALSE]
    /\ last' = Cmd("VIZ_MOUNT", 0 - 1)
    /\ UNCHANGED <<state, store, hook, intake>>

\* A commit with the isPlaying prop changed. A new render starts only when
\* the passive effects of the commit before have run.
VizSetPlaying ==
  /\ viz.phase = "mounted" /\ viz.flushed
  /\ viz' = [viz EXCEPT !.isPlaying = ~viz.isPlaying, !.flushed = FALSE]
  /\ last' = Cmd("VIZ_SET_PLAYING", 0 - 1)
  /\ UNCHANGED <<state, store, hook, intake>>

\* initializeAudioContext has set the refs and setIsInitialized(true) commits
VizInitialized ==
  /\ viz.phase = "mounted" /\ viz.flushed /\ ~viz.isInitialized
  /\ viz' = [viz EXCEPT !.isInitialized = TRUE, !.flushed = FALSE]
  /\ last' = Cmd("VIZ_INITIALIZED", 0 - 1)
  /\ UNCHANGED <<state, store, hook, intake>>

\* setVisualizerType(type): draw gets a new identity
VizSetType ==
  \E type \in VisualizerTypes :
    /\ viz.phase = "mounted" /\ viz.flushed
    /\ type # viz.visualizerType
    /\ viz' = [viz EXCEPT !.visualizerType = type, !.flushed = FALSE]
    /\ last' = Cmd("VIZ_SET_TYPE", 0 - 1)
    /\ UNCHANGED <<state, store, hook, intake>>

\* the component is removed: canvasRef is detached by the commit, the
\* cleanups run with the passive effects
VizUnmount ==
  /\ viz.phase = "mounted" /\ viz.flushed
  /\ viz' = [viz EXCEPT !.phase = "gone", !.flushed = FALSE]
  /\ last' = Cmd("VIZ_UNMOUNT", 0 - 1)
  /\ UNCHANGED <<state, store, hook, intake>>

\* The passive effects of the latest commit run: every commit above changes
\* a dependency of the playback effect, so its cleanup (if it ran before) and
\* its body run; after the removal the cleanups alone
VizFlushEffects ==
  /\ ~viz.flushed
  /\ viz.nextId <= MaxFrames
  /\ viz' =
       [(IF viz.phase = "gone"
           THEN UnmountCleanup(PlaybackCleanup(viz))
           ELSE PlaybackEffect(IF viz.effectRan
                                 THEN PlaybackCleanup(viz) ELSE viz))
        EXCEPT !.flushed = TRUE, !.effectRan = TRUE]
  /\ last' = Cmd("VIZ_FLUSH", 0 - 1)
  /\ UNCHANGED <<state, store, hook, intake>>

\* the browser runs the callback of a pending request: the draw it was
\* requested with
VizFrame ==
  \E r \in viz.pending :
    /\ viz.nextId <= MaxFrames
    /\ viz' = draw([viz EXCEPT !.pending = viz.pending \ {r}], r)
    /\ last' = Cmd("VIZ_FRAME", 0 - 1)
    /\ UNCHANGED <<state, store, hook, intake>>

NextViz ==
  \/ VizMount
  \/ VizSetPlaying
  \/ VizInitialized
  \/ VizSetType
  \/ VizUnmount
  \/ VizFlushEffects
  \/ VizFrame

SpecViz == Init /\ [][NextViz]_vars

\* ------------------------------------------------------ failing storage
\* the initial read of useLocalStorage: the stored list, or initialValue when
\* localStorage throws
useLocalStorageRead(value, throws, initialValue) ==
  IF throws THEN initialValue ELSE value

\* localStorage starts or stops throwing (quota exceeded, storage disabled)
StorageFlips ==
  /\ store' = [store EXCEPT !.failing = ~store.failing]
  /\ last' = Cmd("STORAGE_FLIPS", 0 - 1)
  /\ UNCHANGED <<state, hook, viz, intake>>

\* removeFromStorage(STORAGE_KEYS.PLAYLIST)
RemoveStoredPlaylist ==
  /\ store.hasTracks
  /\ store' = removeFromStorage(store).st
  /\ last' = Cmd("REMOVE_STORED", 0 - 1)
  /\ UNCHANGED <<state, hook, viz, intake>>

\* storage as a page load may find it: the playlist item missing, malformed
\* or a track list, localStorage throwing or not
FaultyStorages ==
  {[st EXCEPT !.failing = f, !.malformed = m /\ st.hasTracks] :
     st \in Storages, f \in BOOLEAN, m \in BOOLEAN}

\* A page load of the provider and of the hook over such a storage
InitFail ==
  /\ state = initialState
  /\ last = Cmd("INIT", 0 - 1)
  /\ store \in FaultyStorages
  /\ \E pl \in StoredTrackLists :
       LET read == useLocalStorageRead(pl, store.failing, <<>>)
       IN  hook = [hookInitial EXCEPT !.playlist = read,
                                      !.mountPlaylist = read,
                                      !.stored = pl]
  /\ viz = vizInitial
  /\ intake = intakeInitial

NextFail ==
  \/ Mount
  \/ store.mounted /\ SetPlaylist
  \/ SavePlaylistEffect
  \/ StorageFlips
  \/ RemoveStoredPlaylist
  \/ HookAddToPlaylist

SpecFail == InitFail /\ [][NextFail]_vars

\* ----------------------------------------------------------- file intake
\* A file is its MIME type, as the pair of the parts around the slash, and
\* its size in bytes
validTypes ==
  {<<"audio", "mp3">>, <<"audio", "mpeg">>, <<"audio", "wav">>,
   <<"audio", "ogg">>, <<"audio", "m4a">>}

maxSize == 50 * 1024 * 1024

\* validateAudioFile(file): TRUE when it returns true, FALSE when it throws
validateAudioFile(file) == file.type \in validTypes /\ file.size <= maxSize

\* the files a user may pick
Files ==
  [type : {<<"audio", "mpeg">>, <<"audio", "wav">>, <<"audio", "flac">>,
           <<"video", "mp4">>},
   size : {1024, maxSize, maxSize + 1}]

\* file.type.startsWith('audio/')
StartsWithAudio(file) == file.type[1] = "audio"

\* the selections of one event: one or two files
Batches == UNION {[1..n -> Files] : n \in 1..2}

\* What files.forEach does to file i: a file the handler lets through
\* becomes a new track object (the first of them is track) handed to the
\* addToPlaylist of the render c the handler was created in
UploadLoop(h, c, files, i, track) ==
  IF i > Len(files) THEN h
  ELSE IF StartsWithAudio(files[i])
    THEN LET new == track + Len(SelectSeq(SubSeq(files, 1, i - 1),
                                          StartsWithAudio))
         IN  addToPlaylist([h EXCEPT !.urls = h.urls \cup {new}], c, <<new>>)
    ELSE h

\* handleFileUpload(event) on the hook h, for selections of up to two files
handleFileUpload(h, files) ==
  UploadLoop(UploadLoop(h, Render(h), files, 1, FreshTrack(h)),
             Render(h), files, 2, FreshTrack(h))

\* handleFileUpload(event) over a selection of one or two files: every file
\* the handler lets through becomes a track handed to addToPlaylist; intake
\* lists the files of those tracks
HandleFileUpload ==
  \E files \in Batches :
    /\ Len(intake) + Len(files) <= MaxLen
    /\ intake' = intake \o SelectSeq(files, StartsWithAudio)
    /\ hook' = handleFileUpload(hook, files)
    /\ last' = Cmd("FILE_UPLOAD", 0 - 1)
    /\ UNCHANGED <<state, store, viz>>

\* removeFromPlaylist(trackId) of the render c: the updater runs on the
\* playlist of that render, the index moves down when the removed track is
\* at or before the current one and the index is not 0
removeFromPlaylist(h, c, trackId) ==
  LET Keep(t)      == t # trackId
      newPlaylist  == SelectSeq(c.playlist, Keep)
      removedIndex == indexOf(c.playlist, trackId)
  IN  [setValue(h, newPlaylist) EXCEPT
                !.currentTrackIndex =
                  IF removedIndex <= c.currentTrackIndex
                     /\ c.currentTrackIndex > 0
                    THEN h.currentTrackIndex - 1
                    ELSE h.currentTrackIndex]

\* pause(): the element stops and rejects the play() promises that wait
pause(h) ==
  [h EXCEPT !.audioPlaying = FALSE,
            !.pending = AbortAll(h.pending),
            !.isPlaying = FALSE]

\* clearPlaylist()
clearPlaylist(h) ==
  pause([setValue(h, <<>>) EXCEPT !.currentTrackIndex = 0,
                                  !.currentTrack = Null])

\* the remove button of a playlist row
HookRemoveFromPlaylist ==
  \E trackId \in Range(hook.playlist) :
    /\ hook' = removeFromPlaylist(hook, Render(hook), trackId)
    /\ last' = Cmd("HOOK_REMOVE", 0 - 1)
    /\ UNCHANGED <<state, store, viz, intake>>

HookClearPlaylist ==
  /\ hook' = clearPlaylist(hook)
  /\ last' = Cmd("HOOK_CLEAR", 0 - 1)
  /\ UNCHANGED <<state, store, viz, intake>>

NextIntake ==
  \/ HandleFileUpload
  \/ HookRemoveFromPlaylist
  \/ HookClearPlaylist

SpecIntake == Init /\ [][NextIntake]_vars

\* ---------------------------------------------- hook failures and seeks
\* loadTrack(track) when audio.load() throws: src and the current track
\* are already set, the catch records the error and ends the loading
loadTrackThrows(h, track) ==
  [loadTrack(h, track) EXCEPT !.error = "Failed to load track",
                              !.isLoading = FALSE]

\* playTrack(track) of the latest render with a load() that throws:
\* loadTrack catches, playTrack goes on to play()
PlayTrackLoadThrows ==
  \E index \in 0..(MaxLen - 1) :
    /\ index < Len(hook.playlist)
    /\ Len(hook.pending) < MaxPending
    /\ hook' = play(loadTrackThrows(hook, At(hook.playlist, index)),
                    Render(hook))
    /\ last' = Cmd("LOAD_THROWS", index)
    /\ UNCHANGED <<state, store, viz, intake>>

\* play() called from the latest render
HookPlay ==
  /\ Len(hook.pending) < MaxPending
  /\ hook' = play(hook, Render(hook))
  /\ last' = Cmd("PLAY", 0 - 1)
  /\ UNCHANGED <<state, store, viz, intake>>

\* the 'error' event of the audio element: handleError; the element stops
\* and the play() promises that wait for the resource will be rejected
AudioError ==
  /\ hook.src # Null
  /\ hook' = [hook EXCEPT !.error = "Failed to load audio file",
                          !.isLoading = FALSE,
                          !.isPlaying = FALSE,
                          !.audioPlaying = FALSE,
                          !.pending = AbortAll(hook.pending)]
  /\ last' = Cmd("AUDIO_ERROR", 0 - 1)
  /\ UNCHANGED <<state, store, viz, intake>>

\* the length in seconds of the media a track's url points to
DurationOf(track) == track + 1

\* seek(time): the time goes to the audio element and into the state as
\* it was passed
seek(h, time) == [h EXCEPT !.audioSeek = time, !.currentTime = time]

\* a time before the start, one inside every track, one past every end
HookSeekInputs == {0 - 1, 1, MaxLen + 2}

HookSeek ==
  \E time \in HookSeekInputs :
    /\ hook' = seek(hook, time)
    /\ last' = Cmd("SEEK", time)
    /\ UNCHANGED <<state, store, viz, intake>>

\* the 'loadedmetadata' event: handleLoadedMetadata
LoadedMetadata ==
  /\ hook.src # Null
  /\ hook.isLoading
  /\ hook' = [hook EXCEPT !.duration = DurationOf(hook.src),
                          !.isLoading = FALSE]
  /\ last' = Cmd("LOADED_METADATA", 0 - 1)
  /\ UNCHANGED <<state, store, viz, intake>>

\* the 'canplay' event: handleCanPlay
CanPlay ==
  /\ hook.src # Null
  /\ hook.error # "null"
  /\ hook' = [hook EXCEPT !.error = "null"]
  /\ last' = Cmd("CAN_PLAY", 0 - 1)
  /\ UNCHANGED <<state, store, viz, intake>>

NextAudio ==
  \/ PlayTrack
  \/ PlayTrackLoadThrows
  \/ HookPlay
  \/ PlayResolved
  \/ PlayRejected
  \/ AudioError
  \/ LoadedMetadata
  \/ CanPlay
  \/ HookSeek

SpecAudio == InitHook /\ [][NextAudio]_vars

\* ------------------------------------------------------------- track ids
\* In storage and in the hook's playlist a track is told apart by its id
\* only; here a track is represented by that id.
\* the readings Date.now() can give once the ids of the playlist have been
\* handed out: the clock does not run backwards, and it may not have moved
ClockReadings(playlist) ==
  {now \in 1..(MaxLen + 1) : \A id \in Range(playlist) : id <= now}

getPlaylist(st) == getFromStorage(PlaylistDoc(st), st.failing, <<>>).value

\* addTrackToPlaylist(track): the stored list with { ...track, id: Date.now() }
addTrackToPlaylist(st, now) ==
  savePlaylist(st, getPlaylist(st) \o <<now>>)

\* removeTrackFromPlaylist(trackId)
removeTrackFromPlaylist(st, trackId) ==
  savePlaylist(st, SelectSeq(getPlaylist(st), LAMBDA id : id # trackId))

\* the id the hook's addToPlaylist gives a track: track.id when truthy, else
\* Date.now() + Math.random(), taken as an id no track has yet
newTrackId(id, fresh) == IF id # Null THEN id ELSE fresh

AddTrackToPlaylist ==
  \E now \in ClockReadings(getPlaylist(store)) :
    /\ Len(getPlaylist(store)) < MaxLen
    /\ store' = addTrackToPlaylist(store, now)
    /\ last' = Cmd("ADD_TRACK", now)
    /\ UNCHANGED <<state, hook, viz, intake>>

RemoveTrackFromPlaylist ==
  \E trackId \in Range(getPlaylist(store)) :
    /\ store' = removeTrackFromPlaylist(store, trackId)
    /\ last' = Cmd("REMOVE_TRACK", trackId)
    /\ UNCHANGED <<state, hook, viz, intake>>

\* addToPlaylist(track) of the hook: the track carries an id or none
HookAddTrack ==
  \E id \in Tracks \cup {Null} :
    /\ Len(hook.playlist) < MaxLen
    /\ FreshTrack(hook) <= MaxLen + 1
    /\ hook' = addToPlaylist(hook, Render(hook),
                             <<newTrackId(id, FreshTrack(hook))>>)
    /\ last' = Cmd("HOOK_ADD_TRACK", id)
    /\ UNCHANGED <<state, store, viz, intake>>

NextIds ==
  \/ AddTrackToPlaylist
  \/ RemoveTrackFromPlaylist
  \/ HookAddTrack
  \/ HookRemoveFromPlaylist

SpecIds == InitStore /\ [][NextIds]_vars

\* ----------------------------------------------------- times and errors
\* the times and durations (whole seconds) a caller reports or asks for
Times == 0..3

SeekInputs == (0 - 1)..4

ErrorMessages == {"Failed to load audio file"}

\* seekTo(time): clamps against the duration of the render, dispatches
seekTo(s, time) ==
  LET clampedTime == Max(0, Min(s.duration, time))
  IN  SET_CURRENT_TIME(s, clampedTime)

SetCurrentTime ==
  \E time \in Times :
    /\ state' = SET_CURRENT_TIME(state, time)
    /\ last' = Cmd("SET_CURRENT_TIME", time)
    /\ UNCHANGED envVars

SetDuration ==
  \E duration \in Times :
    /\ state' = SET_DURATION(state, duration)
    /\ last' = Cmd("SET_DURATION", duration)
    /\ UNCHANGED envVars

SeekTo ==
  \E time \in SeekInputs :
    /\ state' = seekTo(state, time)
    /\ last' = Cmd("SEEK_TO", time)
    /\ UNCHANGED envVars

\* setError(error) with a message
SetError ==
  \E error \in ErrorMessages :
    /\ state' = SET_ERROR(state, error)
    /\ last' = Cmd("SET_ERROR", 0 - 1)
    /\ UNCHANGED envVars

\* A page load over a stored track collection, then selections, time and
\* duration reports, seeks and errors
NextTime ==
  \/ Mount
  \/ store.mounted /\ SkipTo
  \/ store.mounted /\ NextTrack
  \/ store.mounted /\ PreviousTrack
  \/ store.mounted /\ SetCurrentTime
  \/ store.mounted /\ SetDuration
  \/ store.mounted /\ SeekTo
  \/ store.mounted /\ SetError

SpecTime == InitStore /\ [][NextTime]_vars

\* ------------------------------------------------------ the playlist view
\* the id the upload handler of the view gives a track: Date.now() +
\* Math.random(), a number beyond every playlist index
IdOf(track) == MaxLen + track

\* the remove control of the row of the track at index: the provider's
\* removeFromPlaylist is called with track.id and dispatches it as payload
removeControl(s, index) ==
  REMOVE_FROM_PLAYLIST(s, IdOf(At(s.playlist, index)))

RemoveControl ==
  \E index \in 0..(MaxLen - 1) :
    /\ ValidIndex(state, index)
    /\ state' = removeControl(state, index)
    /\ last' = Cmd("REMOVE_CONTROL", index)
    /\ UNCHANGED envVars

NextView ==
  \/ SetPlaylist
  \/ AddToPlaylist
  \/ SkipTo
  \/ RemoveControl

SpecView == Init /\ [][NextView]_vars

\* ================================================================ claims

\* the order next / previous walk: shuffleOrder under shuffle, else originalOrder
ActiveOrder(s) == IF s.shuffle THEN s.shuffleOrder ELSE s.originalOrder

\* arr holds every index 0..n-1 exactly once
IsPermutationOfIndices(arr, n) ==
  /\ Len(arr) = n
  /\ \A i \in 0..(n - 1) : \E k \in 1..n : arr[k] = i

\* arr without the element at 0-based index p
DropAt(arr, p) == SubSeq(arr, 1, p) \o SubSeq(arr, p + 2, Len(arr))

RECURSIVE IterNext(_, _)
IterNext(s, n) == IF n = 0 THEN s ELSE IterNext(NEXT_TRACK(s), n - 1)

RECURSIVE IterPrevious(_, _)
IterPrevious(s, n) == IF n = 0 THEN s ELSE IterPrevious(PREVIOUS_TRACK(s), n - 1)

\* C1: in every state reachable by the reducer commands, currentIndex is -1
\* or a valid index into the playlist.
C1_CurrentIndexValid ==
  state.currentIndex = 0 - 1 \/ ValidIndex(state, state.currentIndex)

\* C2: whenever shuffle is on, shuffleOrder is a permutation of the indices
\* 0..playlist.length-1.
C2_ShuffleOrderIsPermutation ==
  state.shuffle => IsPermutationOfIndices(state.shuffleOrder, Len(state.playlist))

\* C3: after every step of a sequence made only of AddTracks, RemoveTrack
\* (valid index) and SetCurrentTrack (valid pair), currentIndex is -1 or a
\* valid index into the current playlist.
C3_IndexValidUnderAddRemoveSelect ==
  state.currentIndex \in (0 - 1)..(Len(state.playlist) - 1)

\* a remove happened below a selected track and the selection survived it
C3_Witness ==
  /\ last = Cmd("REMOVE_FROM_PLAYLIST", 0)
  /\ Len(state.playlist) = 2
  /\ state.currentIndex = 1
  /\ state.currentTrack = At(state.playlist, 1)

\* C4: RemoveTrack(index) with a valid index removes exactly the track at
\* that position and keeps the others in order; removing the current track
\* leaves currentIndex = -1 and currentTrack null; otherwise currentIndex is
\* decremented when index < currentIndex and unchanged when index >
\* currentIndex, it designates the same track as before, and currentTrack is
\* that track.
C4_RemoveTrack ==
  \A index \in 0..(Len(state.playlist) - 1) :
    LET r   == REMOVE_FROM_PLAYLIST(state, index)
        pl  == state.playlist
        cur == state.currentIndex
    IN  /\ Len(r.playlist) = Len(pl) - 1
        /\ \A k \in 0..(Len(pl) - 2) :
             At(r.playlist, k) = At(pl, IF k < index THEN k ELSE k + 1)
        /\ index = cur => r.currentIndex = 0 - 1 /\ r.currentTrack = Null
        /\ index < cur => r.currentIndex = cur - 1
        /\ index > cur => r.currentIndex = cur
        /\ (index # cur /\ cur >= 0) =>
             /\ At(r.playlist, r.currentIndex) = At(pl, cur)
             /\ r.currentTrack = At(pl, cur)

\* from [A,B,C] with C current, RemoveTrack(0) has acted: [B,C], index 1, C
C4_Witness ==
  /\ last = Cmd("REMOVE_FROM_PLAYLIST", 0)
  /\ state.playlist = <<2, 3>>
  /\ state.currentIndex = 1
  /\ state.currentTrack = 3

\* C5: ReorderPlaylist(from, to) with valid indices moves the track at from
\* to position to, keeps the relative order of the other tracks, and remaps
\* currentIndex so that it designates the same track before and after; a
\* currentIndex of -1 stays -1.
C5_ReorderPlaylist ==
  \A from \in 0..(Len(state.playlist) - 1), to \in 0..(Len(state.playlist) - 1) :
    LET r   == REORDER_PLAYLIST(state, from, to)
        pl  == state.playlist
        cur == state.currentIndex
    IN  /\ Len(r.playlist) = Len(pl)
        /\ At(r.playlist, to) = At(pl, from)
        /\ DropAt(r.playlist, to) = DropAt(pl, from)
        /\ At(r.playlist, r.currentIndex) = At(pl, cur)
        /\ cur = 0 - 1 => r.currentIndex = 0 - 1

\* from [A,B,C] with B current, ReorderPlaylist(0,2) has acted: [B,C,A], index 0
C5_Witness ==
  /\ last.type = "REORDER_PLAYLIST"
  /\ state.playlist = <<2, 3, 1>>
  /\ state.currentIndex = 0
  /\ state.currentTrack = 2

\* C6: with repeat none and shuffle off, on a non-empty playlist with a valid
\* currentIndex, next from the last index yields -1 and from any earlier
\* index yields currentIndex + 1.
C6_NextWithoutRepeat ==
  (/\ state.repeat = "none"
   /\ ~state.shuffle
   /\ Len(state.playlist) > 0
   /\ ValidIndex(state, state.currentIndex)) =>
    LET expected == IF state.currentIndex = Len(state.playlist) - 1
                      THEN 0 - 1
                      ELSE state.currentIndex + 1
    IN  /\ getNextTrackIndex(state) = expected
        /\ NEXT_TRACK(state).currentIndex = expected

\* NextTrack has stepped onto the last index, from where next has no answer
C6_Witness ==
  /\ last.type = "NEXT_TRACK"
  /\ state.repeat = "none"
  /\ ~state.shuffle
  /\ Len(state.playlist) = 3
  /\ state.currentIndex = 2
  /\ getNextTrackIndex(state) = 0 - 1

\* C7: with repeat all and a valid currentIndex i on a playlist of n >= 1
\* tracks, NextTrack applied n times returns currentIndex to i, and so does
\* PreviousTrack applied n times, with shuffle off and with shuffle on.
C7_CyclicClosure ==
  (/\ state.repeat = "all"
   /\ ValidIndex(state, state.currentIndex)) =>
    /\ IterNext(state, Len(state.playlist)).currentIndex = state.currentIndex
    /\ IterPrevious(state, Len(state.playlist)).currentIndex = state.currentIndex

\* C8: with repeat one, NextTrack leaves currentIndex unchanged in every
\* state, and PreviousTrack selects what it selects under the other modes.
C8_RepeatOne ==
  state.repeat = "one" =>
    /\ NEXT_TRACK(state).currentIndex = state.currentIndex
    /\ \A mode \in RepeatModes :
         PREVIOUS_TRACK(state).currentIndex =
           PREVIOUS_TRACK([state EXCEPT !.repeat = mode]).currentIndex

\* C9: when currentIndex does not occur in the active order and the playlist
\* is non-empty, next yields the element at position 0 of the active order
\* and previous the element at its last position.  (Stated where the active
\* order is a permutation of the playlist indices and, for next, where
\* repeat-one does not pre-empt the lookup.)
C9_NotFoundFallback ==
  (/\ Len(state.playlist) > 0
   /\ IsPermutationOfIndices(ActiveOrder(state), Len(state.playlist))
   /\ indexOf(ActiveOrder(state), state.currentIndex) = 0 - 1) =>
    /\ state.repeat # "one" =>
         getNextTrackIndex(state) = At(ActiveOrder(state), 0)
    /\ getPreviousTrackIndex(state) =
         At(ActiveOrder(state), Len(ActiveOrder(state)) - 1)

\* C10: previous from the first position of the active order yields the
\* element at its last position under every repeat mode, and previous never
\* yields -1 on a non-empty playlist.
C10_PreviousWraps ==
  Len(state.playlist) > 0 =>
    \A mode \in RepeatModes :
      LET s     == [state EXCEPT !.repeat = mode]
          order == ActiveOrder(s)
      IN  /\ getPreviousTrackIndex(s) # 0 - 1
          /\ indexOf(order, s.currentIndex) = 0 =>
               getPreviousTrackIndex(s) = At(order, Len(order) - 1)

\* PreviousTrack has wrapped under repeat none: with shuffle order 1,2,0 it
\* stands on index 0, the last element, which only the first position (index
\* 1) leads to
C10_Witness ==
  /\ last.type = "PREVIOUS_TRACK"
  /\ state.repeat = "none"
  /\ state.shuffle
  /\ Len(state.playlist) = 3
  /\ state.shuffleOrder = <<1, 2, 0>>
  /\ state.currentIndex = 0

\* C11: when the resolution of next yields -1 (end of the order, no repeat),
\* NextTrack leaves the selection alone: currentIndex and currentTrack keep
\* their values.
C11_NextFailureKeepsSelection ==
  (ValidIndex(state, state.currentIndex) /\ getNextTrackIndex(state) = 0 - 1) =>
    /\ NEXT_TRACK(state).currentIndex = state.currentIndex
    /\ NEXT_TRACK(state).currentTrack = state.currentTrack

\* the playlist a reload restores from storage st
RestoredPlaylist(st) ==
  IF Len(loadPlaylist(st)) > 0
    THEN SET_PLAYLIST(initialState, loadPlaylist(st)).playlist
    ELSE initialState.playlist

\* C12: when the save effect has just run for the current playlist, the
\* stored track collection equals the in-memory playlist, an empty playlist
\* included, so that a reload restores exactly the playlist held in memory.
C12_WriteThrough ==
  (last.type = "SAVE_PLAYLIST" /\ store.playlistDeps = state.playlist) =>
    RestoredPlaylist(store) = state.playlist

\* C13: a page load over a settings snapshot whose currentIndex is negative
\* or not below the restored track count does not apply it: currentIndex is
\* -1 and currentTrack null when the load effect has run.
C13_InvalidIndexNotApplied ==
  (last.type = "MOUNT" /\ ~ValidIndex(state, last.index)) =>
    /\ store.mounted
    /\ state.currentIndex = 0 - 1
    /\ state.currentTrack = Null

\* a load over two or three stored tracks and a snapshot whose index is the
\* track count has left the selection at -1 / null
C13_Witness ==
  /\ last.type = "MOUNT"
  /\ Len(state.playlist) >= 2
  /\ last.index = Len(state.playlist)
  /\ state.currentIndex = 0 - 1
  /\ state.currentTrack = Null

\* C14: volume lies in [0, 1] (0..10 tenths) in every reachable state,
\* whichever path wrote it: setVolume, the settings restored at page load.
C14_VolumeInRange == state.volume >= 0 /\ state.volume <= 10

\* C15: SetShuffle(true) sets shuffleOrder to a permutation of the indices
\* 0..playlist.length-1: every outcome is one and every permutation is an
\* outcome, whatever shuffleOrder held before; SetShuffle(false) empties it.
C15_SetShuffle ==
  LET n        == Len(state.playlist)
      draws    == RandomDraws(Len(state.originalOrder))
      outcomes == {SET_SHUFFLE(state, TRUE, rnd).shuffleOrder : rnd \in draws}
  IN  /\ outcomes =
           {p \in [1..n -> 0..(n - 1)] : IsPermutationOfIndices(p, n)}
      /\ \A rnd \in draws : SET_SHUFFLE(state, TRUE, rnd).shuffle
      /\ SET_SHUFFLE(state, FALSE, <<>>).shuffleOrder = <<>>
      /\ ~SET_SHUFFLE(state, FALSE, <<>>).shuffle

\* shuffle was turned on over three tracks and drew the order 2,0,1
C15_Witness ==
  /\ last.type = "SET_SHUFFLE"
  /\ state.shuffle
  /\ Len(state.playlist) = 3
  /\ state.shuffleOrder = <<2, 0, 1>>

\* the hook state an observer sees
HookView(h) ==
  <<h.isPlaying, h.isLoading, h.error, h.currentTrack, h.currentTrackIndex>>

\* C16: when playTrack(B) is issued while playTrack(A) is in flight, the last
\* issued wins: the completion of a play() that a later load has superseded
\* changes nothing of the hook's state.
C16_LastIssuedWins ==
  [][\A k \in 1..Len(hook.pending) :
       (/\ hook.pending[k].aborted
        /\ hook'.pending = FilterIndex(hook.pending, k - 1)) =>
         HookView(hook') = HookView(hook)]_vars

\* playback of track has been started on h: the element holds it and plays
\* it or a play() for it is under way
PlaybackStarted(h, track) ==
  /\ h.src = track
  /\ \/ h.audioPlaying
     \/ \E k \in 1..Len(h.pending) :
          ~h.pending[k].aborted /\ h.pending[k].track = track

\* C18: when the playing track ends under repeat one, the same track is
\* started again with track and index unchanged; under repeat all the next
\* track, wrapping at the end, is selected and started.
C18_EndedRepeatOneAll ==
  (hook.audioPlaying /\ Len(hook.playlist) > 0) =>
    LET h    == handleEnded(hook)
        next == (hook.currentTrackIndex + 1) % Len(hook.playlist)
    IN  /\ hook.repeatMode = "one" =>
             /\ h.currentTrack = hook.currentTrack
             /\ h.currentTrackIndex = hook.currentTrackIndex
             /\ PlaybackStarted(h, hook.src)
        /\ hook.repeatMode = "all" =>
             /\ h.currentTrackIndex = next
             /\ h.currentTrack = At(hook.playlist, next)
             /\ PlaybackStarted(h, At(hook.playlist, next))

\* C19: when the playing track ends under repeat none, at the last track
\* playback stops with the index unchanged, and elsewhere exactly the next
\* track is selected and started.
C19_EndedRepeatNone ==
  (/\ hook.audioPlaying
   /\ hook.repeatMode = "none"
   /\ hook.currentTrackIndex < Len(hook.playlist)) =>
    LET h    == handleEnded(hook)
        next == hook.currentTrackIndex + 1
    IN  IF hook.currentTrackIndex = Len(hook.playlist) - 1
          THEN /\ ~h.isPlaying
               /\ h.currentTrackIndex = hook.currentTrackIndex
               /\ h.currentTrack = hook.currentTrack
               /\ \A k \in 1..Len(h.pending) : h.pending[k].aborted
          ELSE /\ h.currentTrackIndex = next
               /\ h.currentTrack = At(hook.playlist, next)
               /\ PlaybackStarted(h, At(hook.playlist, next))

\* C17: the frame loop never leaks: at most one animation-frame request is
\* pending, a request is pending only while isPlaying is true and the
\* component is mounted, and once isPlaying is false or the component is
\* unmounted no frame callback runs.
C17_NoLeakAtOnce ==
  /\ Cardinality(viz.pending) <= 1
  /\ viz.pending # {} => (viz.isPlaying /\ viz.phase = "mounted")
  /\ last.type = "VIZ_FRAME" => (viz.isPlaying /\ viz.phase = "mounted")

\* C17, as the code has it: at most one request is pending and it is the one
\* animationRef holds; once the effects of the latest commit have run, a
\* request is pending only while isPlaying is true, the audio context is
\* initialised and the component is mounted; a frame callback that runs
\* while isPlaying is false or after the unmount runs before those effects.
C17_NoLeak ==
  /\ Cardinality(viz.pending) <= 1
  /\ \A r \in viz.pending : r.id = viz.animationRef
  /\ (viz.flushed /\ viz.pending # {}) =>
       (viz.isPlaying /\ viz.isInitialized /\ viz.phase = "mounted")
  /\ (last.type = "VIZ_FRAME" /\ ~(viz.isPlaying /\ viz.phase = "mounted")) =>
       ~viz.flushed

\* frames ran, then isPlaying went false and the effects of that commit
\* cancelled the request that was pending
C17_Witness ==
  /\ last.type = "VIZ_FLUSH"
  /\ viz.phase = "mounted"
  /\ ~viz.isPlaying
  /\ viz.isInitialized
  /\ viz.animationRef >= 2
  /\ viz.pending = {}

\* C20: every track that entered the playlist through file intake comes from
\* a file that passed both validations: an allowed type and at most 50 MB.
C20_IntakeValidated ==
  \A k \in 1..Len(intake) : validateAudioFile(intake[k])

\* the files of a batch that pass validateAudioFile
ValidFiles(files) == SelectSeq(files, validateAudioFile)

\* C21: a batch of k files of which m are valid adds exactly m tracks, in
\* file order, wherever the invalid files sit; every valid file of the batch
\* is retained in the playlist and in storage. Stated for the batches in
\* which the handler lets through exactly the valid files.
C21_BatchIntake ==
  \A files \in Batches :
    (\A i \in 1..Len(files) :
       StartsWithAudio(files[i]) <=> validateAudioFile(files[i])) =>
      LET h == handleFileUpload(hook, files)
          m == Len(ValidFiles(files))
      IN  /\ h.playlist =
               hook.playlist \o [j \in 1..m |-> FreshTrack(hook) + j - 1]
          /\ h.stored = h.playlist

\* C22: when a track leaves the playlist (remove or clear) the object URL
\* that backs it is released: after the removal of an uploaded track its URL
\* is no longer among the unreleased ones.
C22_UrlReleasedOnRemove ==
  /\ \A trackId \in Range(hook.playlist) :
       trackId \notin removeFromPlaylist(hook, Render(hook), trackId).urls
  /\ clearPlaylist(hook).urls \cap Range(hook.playlist) = {}

\* C23: storage failures are never fatal. No exception leaves getFromStorage,
\* setToStorage or removeFromStorage; over a throwing store or a missing or
\* malformed item get returns the default it was given, and set / remove
\* return false over a throwing store (true otherwise, with the item written
\* or removed); a write that failed leaves the in-memory playlist updated as
\* if it had succeeded.
C23_StorageFailuresNotFatal ==
  LET doc   == PlaylistDoc(store)
      set   == setToStorage(store, "playlist", state.playlist)
      rem   == removeFromStorage(store)
      fresh == <<FreshTrack(hook)>>
  IN  /\ \A defaultValue \in {<<>>, <<Undefined>>} :
           LET get == getFromStorage(doc, store.failing, defaultValue)
           IN  /\ ~get.threw
               /\ get.value = IF store.failing \/ doc.kind # "json"
                                THEN defaultValue ELSE store.tracks
      /\ ~set.threw /\ ~rem.threw
      /\ set.ok = ~store.failing /\ rem.ok = ~store.failing
      /\ store.failing => (set.st = store /\ rem.st = store)
      /\ ~store.failing =>
           /\ PlaylistDoc(set.st) = [kind |-> "json", value |-> state.playlist]
           /\ PlaylistDoc(rem.st).kind = "missing"
      /\ addToPlaylist(hook, Render(hook), fresh).playlist =
           hook.playlist \o fresh
      /\ last.type = "SAVE_PLAYLIST" => store.playlistDeps = state.playlist

\* the save effect ran over a throwing store: the playlist in memory has two
\* tracks or more, the stored item is not that playlist
C23_Witness ==
  /\ last.type = "SAVE_PLAYLIST"
  /\ store.failing
  /\ Len(state.playlist) >= 2
  /\ PlaylistDoc(store) # [kind |-> "json", value |-> state.playlist]

\* C24: after a load failure or a playback failure (the audio error event,
\* load() throwing, play() rejecting) has been handled, error is non-null
\* and isLoading and isPlaying are both false.
C24_FailureSurfaces ==
  last.type \in {"AUDIO_ERROR", "LOAD_THROWS", "PLAY_REJECTED"} =>
    /\ hook.error # "null"
    /\ ~hook.isLoading
    /\ ~hook.isPlaying

\* C25: play() invoked while no track is loaded fails with a playback
\* error: error becomes non-null and isPlaying stays false.
C25_PlayWithoutTrackFails ==
  last.type = "PLAY" /\ hook.currentTrack = Null =>
    /\ hook.error # "null"
    /\ ~hook.isPlaying

UniqueIds(playlist) ==
  \A i, j \in 1..Len(playlist) : i # j => playlist[i] # playlist[j]

\* C26: track ids are unique within the playlist in every reachable state:
\* no addition (with the id addTrackToPlaylist or the hook's addToPlaylist
\* assigns) and no removal yields a playlist in which two tracks share an id.
C26_TrackIdsUnique ==
  /\ UniqueIds(getPlaylist(store))
  /\ UniqueIds(hook.playlist)

\* C28: in every reachable state currentTime and duration are non-negative
\* and, whenever the duration is known (duration > 0), currentTime <=
\* duration; after SetCurrentTime, SetDuration, SetCurrentTrack, NextTrack /
\* PreviousTrack and seekTo in any order.
C28_TimeWithinDuration ==
  /\ state.currentTime >= 0
  /\ state.duration >= 0
  /\ state.duration > 0 => state.currentTime <= state.duration

\* C30: once an error has been recorded, the next operation that succeeds
\* clears it: after a track selection that selected a track, error is null.
C30_SuccessClearsError ==
  /\ last.type \in {"SET_CURRENT_TRACK", "NEXT_TRACK", "PREVIOUS_TRACK"}
  /\ state.currentTrack # Null
  /\ state.currentTrack # Undefined
  => state.error = "null"

\* C27: seek(t) clamps: for every t, after a seek the current time equals
\* min(max(t, 0), duration), both in the state and in the value handed to
\* the audio element; the provider's seekTo clamps likewise.
C27_SeekClamps ==
  /\ last.type = "SEEK" =>
       LET clamped == Min(Max(last.index, 0), hook.duration)
       IN  hook.currentTime = clamped /\ hook.audioSeek = clamped
  /\ \A t \in SeekInputs, d \in Times :
       seekTo([state EXCEPT !.duration = d], t).currentTime =
         Min(Max(t, 0), d)

\* C29: the repeat mode is one of none, one, all in every reachable state,
\* including the state produced by restoring a persisted settings snapshot
\* at initialisation.
C29_RepeatModeValid == state.repeat \in RepeatModes

\* C31: the original-order sequence is the identity [0, 1, ...,
\* playlist.length - 1] in every reachable state: every command that changes
\* the playlist regenerates it for the new length.
C31_OriginalOrderIsIdentity ==
  /\ Len(state.originalOrder) = Len(state.playlist)
  /\ \A k \in 1..Len(state.originalOrder) : state.originalOrder[k] = k - 1

\* a reorder has just run on a playlist of two tracks or more
C31_Witness ==
  /\ last.type = "REORDER_PLAYLIST"
  /\ Len(state.playlist) >= 2
  /\ state.originalOrder = IndexMap(state.playlist)

\* C32: ClearPlaylist from any state (playing or not, at any volume) yields
\* an empty playlist, currentIndex = -1, currentTrack = null, isPlaying =
\* false and empty original and shuffle orders, and leaves volume and repeat
\* mode unchanged.
C32_ClearPlaylist ==
  /\ \A playing \in BOOLEAN, volume \in {0, 5, 10} :
       LET s == [state EXCEPT !.isPlaying = playing, !.volume = volume]
           c == CLEAR_PLAYLIST(s)
       IN  /\ c.playlist = <<>>
           /\ c.currentIndex = 0 - 1
           /\ c.currentTrack = Null
           /\ c.isPlaying = FALSE
           /\ c.originalOrder = <<>>
           /\ c.shuffleOrder = <<>>
           /\ c.volume = volume
           /\ c.repeat = s.repeat
  /\ last.type = "CLEAR_PLAYLIST" => state = CLEAR_PLAYLIST(state)

\* the playlist has just been cleared in repeat-all mode with shuffle on
C32_Witness ==
  /\ last.type = "CLEAR_PLAYLIST"
  /\ state.repeat = "all"
  /\ state.shuffle
  /\ state.playlist = <<>>

\* C33: in every reachable reducer state currentTrack is consistent with
\* currentIndex: currentTrack is null exactly when currentIndex = -1, and
\* otherwise currentTrack is the track stored at playlist[currentIndex].
C33_CurrentTrackMatchesIndex ==
  /\ state.currentTrack = Null <=> state.currentIndex = 0 - 1
  /\ state.currentIndex # 0 - 1 =>
       /\ ValidIndex(state, state.currentIndex)
       /\ state.currentTrack = At(state.playlist, state.currentIndex)

\* the hook state once every play() still under way on h has been fulfilled
\* (none of them superseded)
Fulfilled(h) ==
  IF h.pending = <<>> THEN h
  ELSE [h EXCEPT !.pending = <<>>,
                 !.audioPlaying = TRUE,
                 !.isPlaying = TRUE,
                 !.error = "null"]

\* C34: starting from a player with no current track, playTrack(track,
\* index) whose load and play both succeed ends with currentTrack = track,
\* currentTrackIndex = index and isPlaying = true.
C34_PlayTrackFromIdle ==
  (hook.currentTrack = Null /\ hook.pending = <<>>) =>
    \A index \in 0..(Len(hook.playlist) - 1) :
      LET track == At(hook.playlist, index)
          h     == Fulfilled(playTrack(hook, Render(hook), track, index))
      IN  /\ h.currentTrack = track
          /\ h.currentTrackIndex = index
          /\ h.isPlaying

\* C35: in the audio hook, removeFromPlaylist(id) where id is not the id of
\* the current track (an id that is not in the playlist included) keeps the
\* current track by position: afterwards playlist[currentTrackIndex] is the
\* same track as before, and when id is absent both playlist and
\* currentTrackIndex are unchanged.
C35_RemoveOtherKeepsCurrent ==
  \A trackId \in Range(hook.playlist) \cup {FreshTrack(hook)} :
    (/\ hook.currentTrackIndex < Len(hook.playlist)
     /\ trackId # At(hook.playlist, hook.currentTrackIndex)) =>
      LET h == removeFromPlaylist(hook, Render(hook), trackId)
      IN  /\ At(h.playlist, h.currentTrackIndex) =
               At(hook.playlist, hook.currentTrackIndex)
          /\ trackId \notin Range(hook.playlist) =>
               /\ h.playlist = hook.playlist
               /\ h.currentTrackIndex = hook.currentTrackIndex

\* C36: activating the remove control of a track in the Playlist view
\* removes exactly that track from the playlist held by the player state:
\* afterwards the playlist is one shorter and holds no track with that id.
C36_RemoveControlRemoves ==
  \A index \in 0..(Len(state.playlist) - 1) :
    LET s == removeControl(state, index)
    IN  /\ Len(s.playlist) = Len(state.playlist) - 1
        /\ \A k \in 1..Len(s.playlist) :
             IdOf(s.playlist[k]) # IdOf(At(state.playlist, index))

\* C37: PreviousTrack undoes NextTrack: in any state with repeat other than
\* one, a valid currentIndex i and an active order that is a permutation of
\* the playlist indices, if NextTrack selects an index other than -1 then
\* PreviousTrack applied immediately afterwards selects i (and its track)
\* again.
C37_PreviousUndoesNext ==
  (/\ state.repeat # "one"
   /\ ValidIndex(state, state.currentIndex)
   /\ IsPermutationOfIndices(ActiveOrder(state), Len(state.playlist))) =>
    LET n == NEXT_TRACK(state)
        p == PREVIOUS_TRACK(n)
    IN  n.currentIndex # 0 - 1 =>
          /\ p.currentIndex = state.currentIndex
          /\ p.currentTrack = At(state.playlist, state.currentIndex)

\* shuffle on over three tracks under repeat-all, the selection at the end
\* of the shuffle order: next wraps to its start, previous wraps back
C37_Witness ==
  /\ state.repeat = "all"
  /\ state.shuffle
  /\ Len(state.playlist) = 3
  /\ IsPermutationOfIndices(state.shuffleOrder, 3)
  /\ state.currentIndex = state.shuffleOrder[3]
  /\ state.shuffleOrder[1] # 0
  /\ NEXT_TRACK(state).currentIndex = state.shuffleOrder[1]
  /\ last.type = "PREVIOUS_TRACK"

\* the reducer state with the playlist, selection and repeat mode of the
\* hook h, shuffle off
ReducerTwin(h) ==
  SET_CURRENT_TRACK(
    SET_REPEAT(SET_PLAYLIST(initialState, h.playlist), h.repeatMode),
    At(h.playlist, h.currentTrackIndex), h.currentTrackIndex)

\* C38: with shuffle off, the user-invoked nextTrack and previousTrack of
\* the audio hook select the same index as the reducer's NEXT_TRACK and
\* PREVIOUS_TRACK, for every playlist length, every valid current index and
\* every repeat mode.
C38_TransportLockStep ==
  (/\ ~hook.isShuffled
   /\ hook.currentTrackIndex < Len(hook.playlist)) =>
    /\ nextTrack(hook, Render(hook), 0).currentTrackIndex =
         NEXT_TRACK(ReducerTwin(hook)).currentIndex
    /\ previousTrack(hook, Render(hook), 0).currentTrackIndex =
         PREVIOUS_TRACK(ReducerTwin(hook)).currentIndex

\* the mode after n toggles of the provider from the state s
RECURSIVE Toggled(_, _)
Toggled(s, n) == IF n = 0 THEN s ELSE Toggled(toggleRepeat(s), n - 1)

\* C39: toggleRepeat cycles the repeat mode in the order none -> all -> one
\* -> none, so three consecutive toggles return to the starting mode; from a
\* value outside the three modes the next toggle yields none; the provider's
\* and the hook's toggleRepeat agree on this order.
C39_ToggleRepeatCycle ==
  LET mode == state.repeat
      next == toggleRepeat(state).repeat
  IN  /\ mode = "none" => next = "all"
      /\ mode = "all" => next = "one"
      /\ mode = "one" => next = "none"
      /\ mode \notin RepeatModes => next = "none"
      /\ mode \in RepeatModes => Toggled(state, 3).repeat = mode
      /\ toggleRepeatUpdater(mode) = next
      /\ toggleRepeatUpdater(hook.repeatMode) =
           toggleRepeat([state EXCEPT !.repeat = hook.repeatMode]).repeat
      /\ last.type = "TOGGLE_REPEAT" =>
           state.repeat = IF last.index = 0 THEN "all"
                          ELSE IF last.index = 1 THEN "one"
                          ELSE "none"

\* a restored mode outside the three has just been toggled to none
C39_Witness ==
  /\ last.type = "TOGGLE_REPEAT"
  /\ last.index = 0 - 1
  /\ state.repeat = "none"

====
